---- MODULE Spec2Model ----
(***************************************************************************)
(* Model of the RAG chatbot backend: the two chat handlers                 *)
(* (src/src/api/chat.py), the confidence classification                    *)
(* (src/src/services/retrieval.py), the generator                          *)
(* (src/src/services/generation.py), the rate limiter (src/src/main.py),   *)
(* the embedding model cache (src/src/services/embeddings.py) and the      *)
(* ingestion script (src/scripts/ingest.py): chunker, section ids and      *)
(* upload loop.  Each component has a specification of its own (Spec,      *)
(* ChunkSpec, RateSpec, EmbedSpec, UploadSpec, SectionSpec) in which the   *)
(* other components stay idle.                                             *)
(*                                                                         *)
(* Similarity scores and thresholds are real numbers in [-1,1] in the      *)
(* code; the model keeps them as integers in hundredths (0.7 is 70).       *)
(***************************************************************************)
EXTENDS Integers, Sequences, FiniteSets, TLC

VARIABLES
    settings,         \* the cached Settings instance: the two thresholds
    endpoint,         \* which handler answered last: "none", "chat", "context"
    request,          \* the request the last handler received
    results,          \* what search_similar returned to the last handler
    classified,       \* get_confidence_level(top_score) of the last handler
    llm_calls,        \* calls of the Groq chat completion during the last request
    llm_selected,     \* selected_text handed to generate_response, or None
    response,         \* the ChatResponse returned, or the HTTP 500 raised
    text,             \* chunk_text: argument text, a sequence of characters
    max_tokens,       \* chunk_text: argument max_tokens
    overlap_tokens,   \* chunk_text: argument overlap_tokens
    words,            \* chunk_text: local words
    chunks,           \* chunk_text: local chunks
    start_idx,        \* chunk_text: local start_idx
    char_pos,         \* chunk_text: local char_pos
    pc,               \* chunk_text: "idle", "call", "loop", "done"
    fault,            \* the step of the last request that raised, or "none"
    all_points,       \* ingest_docs: number of points prepared by the running ingestion
    batch_start,      \* ingest_docs: the loop variable i of the upload loop
    ingest_pc,        \* ingest_docs: "idle", "upload", "complete", "crashed"
    ingest_report,    \* ingest_docs: what the run reported about a failed batch
    upsert_calls,     \* sizes of the batches the running ingestion sent, in order
    collection,       \* the vector store: per ingestion run, how many points it persisted
    model_cache,      \* lru_cache of get_embedding_model: the cached instance, or 0
    constructions,    \* SentenceTransformer instances constructed so far
    caller_pc,        \* per calling thread: "idle", "miss", "loaded", "returned"
    caller_model,     \* per calling thread: the instance get_embedding_model returned, or 0
    rate_limit_store, \* client hash -> [count, window_start]
    now,              \* datetime.utcnow(), in half seconds
    rl_last,          \* the last request through rate_limit_middleware and its outcome
    allowed_log,      \* client hash -> how many of its requests were let through in its current window
    rejected_log,     \* client hash -> rejections since its last request let through (capped)
    doc,              \* ingest_docs: the markdown file being ingested
    points,           \* ingest_docs: the payloads prepared from doc
    section_pc        \* ingest_docs: "idle", "read", "prepared"

chatVars == <<settings, endpoint, request, results, classified, llm_calls, llm_selected, response>>
chunkVars == <<text, max_tokens, overlap_tokens, words, chunks, start_idx, char_pos, pc>>
uploadVars == <<all_points, batch_start, ingest_pc, ingest_report, upsert_calls, collection>>
embedVars == <<model_cache, constructions, caller_pc, caller_model>>
rateVars == <<rate_limit_store, now, rl_last, allowed_log, rejected_log>>
sectionVars == <<doc, points, section_pc>>
vars == <<settings, endpoint, request, results, classified, llm_calls, llm_selected, response,
          text, max_tokens, overlap_tokens, words, chunks, start_idx, char_pos, pc,
          fault, all_points, batch_start, ingest_pc, ingest_report, upsert_calls, collection,
          model_cache, constructions, caller_pc, caller_model,
          rate_limit_store, now, rl_last, allowed_log, rejected_log, doc, points, section_pc>>

None == "None"

(***************************************************************************)
(* Settings (src/src/config.py).  The thresholds are read from the         *)
(* environment with no validation, so any pair can be configured.          *)
(***************************************************************************)
retrieval_top_k == 3
confidence_high_threshold == 70
confidence_low_threshold == 40

DefaultSettings ==
    [confidence_low_threshold |-> confidence_low_threshold,
     confidence_high_threshold |-> confidence_high_threshold]

\* Threshold pairs an environment can configure: the defaults, well-ordered
\* pairs whose low threshold is zero or negative, an equal pair and an
\* inverted pair.
Settings ==
    { DefaultSettings,
      [confidence_low_threshold |-> 0, confidence_high_threshold |-> 70],
      [confidence_low_threshold |-> -20, confidence_high_threshold |-> 39],
      [confidence_low_threshold |-> 40, confidence_high_threshold |-> 40],
      [confidence_low_threshold |-> 70, confidence_high_threshold |-> 40] }

\* Cosine similarity scores the vector index can report, in hundredths.
Scores == {-20, 20, 39, 40, 70}

Chapters == {"ros2-fundamentals"}

Messages == {"Explain X"}

SelectedTexts == {"a quote of 10 to 500 characters"}

\* Completions the external LLM can return.
LLMAnswers == {"completion A", "completion B"}

\* Outcome of the chat completion call: a completion, or an exception.
Raised == "raised"
LLMOutcomes == LLMAnswers \cup {Raised}

\* The steps of a request that can raise: embedding the query and the
\* vector search (both inside search_similar), the completion call, and
\* building the sources and the ChatResponse.
Faults == {"none", "embed", "search", "llm", "assemble"}

\* How the collaborators of one request behave: no step raises and the LLM
\* returns a completion, or one step raises (the completion call has
\* returned when it is the assembly that raises).
Outcomes ==
    {[fault |-> f, completion |-> c] : f \in {"none", "assemble"}, c \in LLMAnswers}
        \cup {[fault |-> f, completion |-> Raised] : f \in {"embed", "search", "llm"}}

\* str(e) of the exception a step raises.
ExceptionMessage(step) ==
    CASE step = "embed" -> "embedding model failed"
      [] step = "search" -> "vector store unreachable"
      [] step = "llm" -> "completion API failed"
      [] step = "assemble" -> "response validation failed"

(***************************************************************************)
(* Retrieval (src/src/services/retrieval.py)                               *)
(***************************************************************************)
\* The handlers read only the score of a hit and hand the payload on.
RetrievalResult == [score : Scores]

RECURSIVE SeqsUpTo(_, _)
SeqsUpTo(S, n) ==
    IF n = 0 THEN {<<>>}
    ELSE LET shorter == SeqsUpTo(S, n - 1)
         IN shorter \cup {Append(s, x) : s \in {t \in shorter : Len(t) = n - 1}, x \in S}

\* search_similar: at most top_k hits, ordered by score descending by the
\* index.  chapter_filter narrows the points the index searches; which
\* scores come back is the index's answer either way.
search_similar(chapter_filter) ==
    { hits \in SeqsUpTo(RetrievalResult, retrieval_top_k) :
        \A i \in 1..(Len(hits) - 1) : hits[i].score >= hits[i + 1].score }

get_confidence_level_strict(top_score) ==
    IF top_score > settings.confidence_high_threshold THEN "high"
    ELSE IF top_score > settings.confidence_low_threshold THEN "medium"
    ELSE "low"

get_confidence_level(top_score) ==
    IF top_score >= settings.confidence_high_threshold THEN "high"
    ELSE IF top_score >= settings.confidence_low_threshold THEN "medium"
    ELSE "low"

\* top_score = results[0].score if results else 0
top_score_of(hits) == IF Len(hits) > 0 THEN hits[1].score ELSE 0

(***************************************************************************)
(* Generation (src/src/services/generation.py)                             *)
(***************************************************************************)
FallbackText == "I couldn't find enough relevant information in the textbook ..."

generate_low_confidence_response(query) == FallbackText

\* build_sources: one Source per retrieval result, in order.
build_sources(hits) ==
    [i \in 1..Len(hits) |->
        [score |-> hits[i].score]]

(***************************************************************************)
(* Chat handlers (src/src/api/chat.py).  Each branch yields the handler's  *)
(* locals; llm is the number of completion calls the branch makes.         *)
(***************************************************************************)
DisclaimerLow == "This topic may not be covered in the textbook."
DisclaimerMedium == "Based on limited context from the textbook. The answer may be incomplete."
DisclaimerContextLow == "Response based primarily on the selected text."
DisclaimerContextMedium == "Based on the selected text and limited textbook context."

chat_low_calls_llm(message, hits, completion) ==
    [answer |-> completion, sources |-> build_sources(hits),
     disclaimer |-> DisclaimerLow, confidence |-> "low",
     llm |-> 1, selected |-> None]

chat_low(message, hits, completion) ==
    [answer |-> generate_low_confidence_response(message), sources |-> <<>>,
     disclaimer |-> DisclaimerLow, confidence |-> "low",
     llm |-> 0, selected |-> None]

chat_else_no_disclaimer(message, hits, confidence, completion) ==
    [answer |-> completion, sources |-> build_sources(hits),
     disclaimer |-> None,
     confidence |-> confidence, llm |-> 1, selected |-> None]

chat_else(message, hits, confidence, completion) ==
    [answer |-> completion, sources |-> build_sources(hits),
     disclaimer |-> IF confidence = "medium" THEN DisclaimerMedium ELSE None,
     confidence |-> confidence, llm |-> 1, selected |-> None]

context_low_no_upgrade(message, hits, selected_text, completion) ==
    [answer |-> completion,
     sources |-> IF Len(hits) > 0 THEN build_sources(hits) ELSE <<>>,
     disclaimer |-> DisclaimerContextLow, confidence |-> "low",
     llm |-> 1, selected |-> selected_text]

context_low(message, hits, selected_text, completion) ==
    [answer |-> completion,
     sources |-> IF Len(hits) > 0 THEN build_sources(hits) ELSE <<>>,
     disclaimer |-> DisclaimerContextLow, confidence |-> "medium",
     llm |-> 1, selected |-> selected_text]

context_else(message, hits, selected_text, confidence, completion) ==
    [answer |-> completion, sources |-> build_sources(hits),
     disclaimer |-> IF confidence = "medium" THEN DisclaimerContextMedium ELSE None,
     confidence |-> confidence, llm |-> 1, selected |-> selected_text]

\* Top-level keys of the JSON body of a ChatResponse (schemas.py).
ChatResponseKeys == {"message_id", "session_id", "answer", "confidence", "sources", "disclaimer"}

\* Top-level keys of the body FastAPI renders for an HTTPException and for a
\* RequestValidationError: the exception's detail under the one key "detail".
HTTPExceptionKeys == {"detail"}

ChatResponse(locals) ==
    [status |-> 200, answer |-> locals.answer, confidence |-> locals.confidence,
     sources |-> locals.sources, disclaimer |-> locals.disclaimer, code |-> None,
     error |-> None, detail_message |-> None, body |-> ChatResponseKeys]

ErrorChat == "Failed to process chat request"
ErrorContext == "Failed to process contextual chat request"

InternalError_message_as_error(error, message) ==
    [status |-> 500, answer |-> None, confidence |-> None,
     sources |-> <<>>, disclaimer |-> None, code |-> "INTERNAL_ERROR",
     error |-> message, detail_message |-> None, body |-> HTTPExceptionKeys]

\* except Exception as e: HTTPException(500, detail={"error": ..., "code":
\* INTERNAL_ERROR, "details": {"message": str(e)}})
InternalError(error, message) ==
    [status |-> 500, answer |-> None, confidence |-> None,
     sources |-> <<>>, disclaimer |-> None, code |-> "INTERNAL_ERROR",
     error |-> error, detail_message |-> message, body |-> HTTPExceptionKeys]

\* The request body fails the ChatRequest / ContextualChatRequest schema:
\* FastAPI answers 422 with the list of pydantic errors under "detail"; the
\* application installs no handler of its own and sets no ErrorCode.
ValidationError ==
    [status |-> 422, answer |-> None, confidence |-> None,
     sources |-> <<>>, disclaimer |-> None, code |-> None,
     error |-> None, detail_message |-> None, body |-> HTTPExceptionKeys]

NoResponse ==
    [status |-> 0, answer |-> None, confidence |-> None,
     sources |-> <<>>, disclaimer |-> None, code |-> None,
     error |-> None, detail_message |-> None, body |-> {}]

\* The handler from the classification on: the branch, then the response.
\* A completion call that raises, or a Source that build_sources cannot
\* build from a hit's payload, ends in the except clause; a branch that
\* makes no completion call and builds no Source has no step that raises.
Respond(error, locals, outcome) ==
    LET raised == IF outcome.fault = "llm" /\ locals.llm > 0 THEN "llm"
                  ELSE IF outcome.fault = "assemble" /\ Len(locals.sources) > 0
                       THEN "assemble"
                  ELSE "none"
    IN /\ llm_calls' = locals.llm
       /\ llm_selected' = IF locals.llm > 0 THEN locals.selected ELSE None
       /\ fault' = raised
       /\ response' = IF raised # "none"
                      THEN InternalError(error, ExceptionMessage(raised))
                      ELSE ChatResponse(locals)

\* search_similar raised (embedding the query, or the vector search):
\* nothing was classified, no completion was called.
SearchFailed(error, outcome) ==
    /\ results' = <<>>
    /\ classified' = None
    /\ llm_calls' = 0
    /\ llm_selected' = None
    /\ fault' = outcome.fault
    /\ response' = InternalError(error, ExceptionMessage(outcome.fault))

\* Lengths of the message field a client can send, and those the schema
\* accepts (min_length=1, max_length=2000).
MessageLengths == {0, 1, 2000, 2001}
ValidMessageLength(n) == 1 <= n /\ n <= 2000

\* Lengths of selected_text, and those the schema accepts (10..500).
SelectedLengths == {9, 10, 500, 501}
ValidSelectedLength(n) == 10 <= n /\ n <= 500

(***************************************************************************)
(* Idle states of the components a specification does not exercise         *)
(***************************************************************************)
MaxThreads == 3
Threads == 1..MaxThreads

Clients == {"hashA", "hashB"}

\* What a run of ingest_docs has told its operator: the "Uploaded batch"
\* lines printed, whether "Ingestion complete!" was printed, and the account
\* of a failed batch (none is ever given: -1).
NoReport ==
    [uploaded |-> 0, complete |-> FALSE,
     failed_batch |-> -1, persisted |-> -1, failed |-> -1, not_attempted |-> -1]

\* A client hash that is not a key of rate_limit_store.
Absent == [count |-> 0, window_start |-> -1]

\* rl_last before any request
NoRequest ==
    [client |-> None, path |-> <<>>, status |-> 0, retry_after |-> -1,
     header |-> -1, forwarded |-> FALSE, rejects_before |-> 0,
     body |-> {}, code |-> None]

UploadIdle ==
    /\ all_points = 0
    /\ batch_start = 0
    /\ ingest_pc = "idle"
    /\ ingest_report = NoReport
    /\ upsert_calls = <<>>
    /\ collection = <<>>

EmbedIdle ==
    /\ model_cache = 0
    /\ constructions = 0
    /\ caller_pc = [t \in Threads |-> "idle"]
    /\ caller_model = [t \in Threads |-> 0]

RateIdle ==
    /\ rate_limit_store = [c \in Clients |-> Absent]
    /\ now = 0
    /\ rl_last = NoRequest
    /\ allowed_log = [c \in Clients |-> 0]
    /\ rejected_log = [c \in Clients |-> 0]

SectionIdle ==
    /\ doc = <<>>
    /\ points = <<>>
    /\ section_pc = "idle"

ChunkIdle ==
    /\ text = <<>>
    /\ max_tokens = 0
    /\ overlap_tokens = 0
    /\ words = <<>>
    /\ chunks = <<>>
    /\ start_idx = 0
    /\ char_pos = 0
    /\ pc = "idle"

send_chat_message ==
    \E message \in Messages, outcome \in Outcomes :
        /\ endpoint' = "chat"
        /\ request' = [message |-> message, selected_text |-> None, chapter_slug |-> None]
        /\ \/ /\ outcome.fault \in {"embed", "search"}
              /\ SearchFailed(ErrorChat, outcome)
           \/ /\ outcome.fault \notin {"embed", "search"}
              /\ \E hits \in search_similar(None) :
                    LET confidence == get_confidence_level(top_score_of(hits))
                    IN /\ results' = hits
                       /\ classified' = confidence
                       /\ IF confidence = "low"
                          THEN Respond(ErrorChat,
                                       chat_low(message, hits, outcome.completion), outcome)
                          ELSE Respond(ErrorChat,
                                       chat_else(message, hits, confidence, outcome.completion),
                                       outcome)
        /\ UNCHANGED <<settings, text, max_tokens, overlap_tokens, words, chunks,
                       start_idx, char_pos, pc>>
        /\ UNCHANGED <<uploadVars, embedVars, rateVars, sectionVars>>

send_contextual_message ==
    \E message \in Messages, selected_text \in SelectedTexts,
       chapter_slug \in Chapters \cup {None}, outcome \in Outcomes :
        /\ endpoint' = "context"
        /\ request' = [message |-> message, selected_text |-> selected_text,
                       chapter_slug |-> chapter_slug]
        /\ \/ /\ outcome.fault \in {"embed", "search"}
              /\ SearchFailed(ErrorContext, outcome)
           \/ /\ outcome.fault \notin {"embed", "search"}
              /\ \E hits \in search_similar(chapter_slug) :
                    LET confidence == get_confidence_level(top_score_of(hits))
                    IN /\ results' = hits
                       /\ classified' = confidence
                       /\ IF confidence = "low"
                          THEN Respond(ErrorContext,
                                       context_low(message, hits, selected_text,
                                                   outcome.completion), outcome)
                          ELSE Respond(ErrorContext,
                                       context_else(message, hits, selected_text, confidence,
                                                    outcome.completion), outcome)
        /\ UNCHANGED <<settings, text, max_tokens, overlap_tokens, words, chunks,
                       start_idx, char_pos, pc>>
        /\ UNCHANGED <<uploadVars, embedVars, rateVars, sectionVars>>

\* A request whose body the schema of its endpoint rejects never reaches
\* the handler: FastAPI answers it.
request_validation_error ==
    \E route \in {"chat", "context"}, message_len \in MessageLengths,
       selected_len \in SelectedLengths :
        /\ \/ ~ValidMessageLength(message_len)
           \/ route = "context" /\ ~ValidSelectedLength(selected_len)
        /\ endpoint' = route
        /\ request' = [message |-> None, selected_text |-> None, chapter_slug |-> None]
        /\ results' = <<>>
        /\ classified' = None
        /\ llm_calls' = 0
        /\ llm_selected' = None
        /\ fault' = "none"
        /\ response' = ValidationError
        /\ UNCHANGED <<settings, text, max_tokens, overlap_tokens, words, chunks,
                       start_idx, char_pos, pc>>
        /\ UNCHANGED <<uploadVars, embedVars, rateVars, sectionVars>>

Init ==
    /\ settings \in Settings
    /\ endpoint = "none"
    /\ request = [message |-> None, selected_text |-> None, chapter_slug |-> None]
    /\ results = <<>>
    /\ classified = None
    /\ llm_calls = 0
    /\ llm_selected = None
    /\ response = NoResponse
    /\ fault = "none"
    /\ ChunkIdle
    /\ UploadIdle
    /\ EmbedIdle
    /\ RateIdle
    /\ SectionIdle

Next ==
    \/ send_chat_message
    \/ send_contextual_message
    \/ request_validation_error

Spec == Init /\ [][Next]_vars

(***************************************************************************)
(* Chunker (src/scripts/ingest.py).  A text is a sequence of characters;   *)
(* offsets are 0-based as in Python.                                       *)
(***************************************************************************)
MaxTextLen == 5
MaxTokens == 3
MaxChunks == 4

Alphabet == {"a", "b", " "}

Texts == SeqsUpTo(Alphabet, MaxTextLen)

Min(a, b) == IF a <= b THEN a ELSE b
Max(a, b) == IF a >= b THEN a ELSE b

\* The whitespace characters of the model's texts.
Whitespace == {" ", "\n"}

\* str.split() without arguments: the maximal runs of non-whitespace.
RECURSIVE SplitFrom(_, _, _, _)
SplitFrom(t, i, cur, acc) ==
    IF i > Len(t) THEN (IF cur = <<>> THEN acc ELSE Append(acc, cur))
    ELSE IF t[i] \in Whitespace
         THEN SplitFrom(t, i + 1, <<>>, IF cur = <<>> THEN acc ELSE Append(acc, cur))
         ELSE SplitFrom(t, i + 1, Append(cur, t[i]), acc)

Split(t) == SplitFrom(t, 1, <<>>, <<>>)

\* " ".join(ws)
RECURSIVE Join(_)
Join(ws) ==
    IF ws = <<>> THEN <<>>
    ELSE IF Len(ws) = 1 THEN ws[1]
    ELSE ws[1] \o <<" ">> \o Join(Tail(ws))

\* A slice index as Python normalises it: a negative one counts from the
\* end, and both ends are clamped to the sequence.
SliceIndex(i, n) == IF i < 0 THEN Max(i + n, 0) ELSE Min(i, n)

\* seq[lo:hi]
PySlice(seq, lo, hi) ==
    LET a == SliceIndex(lo, Len(seq))
        b == SliceIndex(hi, Len(seq))
    IN IF a < b THEN SubSeq(seq, a + 1, b) ELSE <<>>

\* t.find(sub, start): the lowest 0-based offset >= start where sub occurs
\* in t, or -1.
Find(t, sub, start) ==
    LET from == SliceIndex(start, Len(t))
        hits == { i \in from..(Len(t) - Len(sub)) :
                    \A k \in 1..Len(sub) : t[i + k] = sub[k] }
    IN IF start > Len(t) \/ hits = {} THEN -1
       ELSE CHOOSE i \in hits : \A j \in hits : i <= j

\* line 77: start_char = text.find(chunk_words[0], char_pos) if chunk_words else char_pos
chunk_start_char(chunk_words) ==
    IF chunk_words # <<>> THEN Find(text, chunk_words[1], char_pos) ELSE char_pos

chunk_end_char_by_words(start_char, chunk_words) == start_char + Len(chunk_words) - 1

\* line 78: end_char = start_char + len(chunk_text)
chunk_end_char(start_char, chunk_words) == start_char + Len(Join(chunk_words))

next_start_idx_no_advance(end_idx) == end_idx - max_tokens

next_start_idx_skip(end_idx) == end_idx - overlap_tokens + 1

\* line 87: start_idx = end_idx - overlap_tokens
next_start_idx(end_idx) == end_idx - overlap_tokens

\* The call: words = text.split(); chunks = []; start_idx = 0; char_pos = 0
ChunkCall ==
    /\ pc = "call"
    /\ words' = Split(text)
    /\ chunks' = <<>>
    /\ start_idx' = 0
    /\ char_pos' = 0
    /\ pc' = "loop"
    /\ UNCHANGED <<text, max_tokens, overlap_tokens>>
    /\ UNCHANGED <<chatVars, fault, uploadVars, embedVars, rateVars, sectionVars>>

\* One pass of the while body, up to the break.  A run that never ends
\* grows chunks without bound; MaxChunks caps it.
ChunkIter ==
    /\ pc = "loop"
    /\ start_idx < Len(words)
    /\ Len(chunks) < MaxChunks
    /\ LET end_idx == Min(start_idx + max_tokens, Len(words))
           chunk_words == PySlice(words, start_idx, end_idx)
           start_char == chunk_start_char(chunk_words)
           end_char == chunk_end_char(start_char, chunk_words)
       IN /\ chunks' = Append(chunks, [text |-> Join(chunk_words),
                                       start_char |-> start_char,
                                       end_char |-> end_char])
          /\ start_idx' = next_start_idx(end_idx)
          /\ char_pos' = end_char
          /\ pc' = IF end_idx >= Len(words) THEN "done" ELSE "loop"
    /\ UNCHANGED <<text, max_tokens, overlap_tokens, words>>
    /\ UNCHANGED <<chatVars, fault, uploadVars, embedVars, rateVars, sectionVars>>

\* The while condition is false: return chunks.
ChunkReturn ==
    /\ pc = "loop"
    /\ ~(start_idx < Len(words))
    /\ pc' = "done"
    /\ UNCHANGED <<text, max_tokens, overlap_tokens, words, chunks, start_idx, char_pos>>
    /\ UNCHANGED <<chatVars, fault, uploadVars, embedVars, rateVars, sectionVars>>

ChatIdle ==
    /\ settings = DefaultSettings
    /\ endpoint = "none"
    /\ request = [message |-> None, selected_text |-> None, chapter_slug |-> None]
    /\ results = <<>>
    /\ classified = None
    /\ llm_calls = 0
    /\ llm_selected = None
    /\ response = NoResponse
    /\ fault = "none"

\* chunk_text is about to be called with any text and any pair of
\* parameters, those with overlap_tokens >= max_tokens included.
ChunkInit ==
    /\ ChatIdle
    /\ UploadIdle
    /\ EmbedIdle
    /\ RateIdle
    /\ SectionIdle
    /\ text \in Texts
    /\ max_tokens \in 1..MaxTokens
    /\ overlap_tokens \in 0..MaxTokens
    /\ words = <<>>
    /\ chunks = <<>>
    /\ start_idx = 0
    /\ char_pos = 0
    /\ pc = "call"

ChunkNext ==
    \/ ChunkCall
    \/ ChunkIter
    \/ ChunkReturn

\* chunk_text is sequential code: while a step is possible it is taken.
ChunkSpec == ChunkInit /\ [][ChunkNext]_vars /\ WF_vars(ChunkNext)

(***************************************************************************)
(* The rate limiter of src/src/main.py.  Time is counted in ticks of half  *)
(* a second so that elapsed_seconds has a fractional part and int() has    *)
(* something to cut off.  The limit and the window are settings; the model *)
(* runs them at small values.                                              *)
(***************************************************************************)
rate_limit_requests == 2
rate_limit_window_seconds == 2
TicksPerSecond == 2
MaxExtraTicks == 1
MaxRejects == 2
Horizon == rate_limit_window_seconds * TicksPerSecond + MaxExtraTicks
WindowTicks == rate_limit_window_seconds * TicksPerSecond

ChatPath == <<"/", "c", "h", "a", "t">>
ContextPath == ChatPath \o <<"/", "c", "o", "n", "t", "e", "x", "t">>
HealthPath == <<"/", "h", "e", "a", "l", "t", "h">>
Paths == {ChatPath, ContextPath, HealthPath}

\* str.startswith
StartsWith(s, prefix) ==
    Len(s) >= Len(prefix) /\ SubSeq(s, 1, Len(prefix)) = prefix

\* ErrorResponse.model_dump(): the keys of the JSON body
ErrorResponseKeys == {"error", "code", "details"}

\* line 78: elapsed_seconds = (now - window_start).total_seconds(), in ticks
elapsed_ticks(client_data) == now - client_data.window_start

\* line 81: elapsed_seconds >= settings.rate_limit_window_seconds
window_expired(client_data) == elapsed_ticks(client_data) >= WindowTicks

limit_exceeded_strict(client_data) == client_data.count > rate_limit_requests

\* line 86: client_data["count"] >= settings.rate_limit_requests
limit_exceeded(client_data) == client_data.count >= rate_limit_requests

\* line 87: int(settings.rate_limit_window_seconds - elapsed_seconds); the
\* difference is positive here, so int() is the floor.
retry_after_of(client_data) ==
    (WindowTicks - elapsed_ticks(client_data)) \div TicksPerSecond

reject_and_count(store, client_hash) ==
    [store |-> [store EXCEPT ![client_hash].count = @ + 1],
     is_allowed |-> FALSE,
     retry_after |-> retry_after_of(store[client_hash])]

\* lines 86-88: return False, retry_after; the store is not written
reject(store, client_hash) ==
    [store |-> store,
     is_allowed |-> FALSE,
     retry_after |-> retry_after_of(store[client_hash])]

\* check_rate_limit: the store it leaves and the pair it returns
\* (retry_after None is -1)
check_rate_limit(client_hash) ==
    LET client_data == rate_limit_store[client_hash]
        fresh == [rate_limit_store EXCEPT
                     ![client_hash] = [count |-> 1, window_start |-> now]]
    IN IF client_data = Absent
       THEN [store |-> fresh, is_allowed |-> TRUE, retry_after |-> -1]
       ELSE IF window_expired(client_data)
       THEN [store |-> fresh, is_allowed |-> TRUE, retry_after |-> -1]
       ELSE IF limit_exceeded(client_data)
       THEN reject(rate_limit_store, client_hash)
       ELSE [store |-> [rate_limit_store EXCEPT ![client_hash].count = @ + 1],
             is_allowed |-> TRUE, retry_after |-> -1]

\* One request through rate_limit_middleware.  forwarded says whether
\* call_next(request) was awaited; a forwarded request has status 0 here,
\* its status is the downstream handler's.
rate_limit_middleware ==
    \E client_hash \in Clients, path \in Paths :
        LET limited == StartsWith(path, ChatPath)
            check == check_rate_limit(client_hash)
            rejected == limited /\ ~check.is_allowed
        IN /\ rate_limit_store' = IF limited THEN check.store ELSE rate_limit_store
           /\ rl_last' =
                 IF rejected
                 THEN [client |-> client_hash, path |-> path, status |-> 429,
                       retry_after |-> check.retry_after,
                       header |-> check.retry_after,
                       forwarded |-> FALSE,
                       rejects_before |-> rejected_log[client_hash],
                       body |-> ErrorResponseKeys,
                       code |-> "RATE_LIMIT_EXCEEDED"]
                 ELSE [client |-> client_hash, path |-> path, status |-> 0,
                       retry_after |-> -1, header |-> -1,
                       forwarded |-> TRUE,
                       rejects_before |-> rejected_log[client_hash],
                       body |-> {}, code |-> None]
           /\ allowed_log' =
                 IF limited /\ check.is_allowed
                 THEN [allowed_log EXCEPT ![client_hash] =
                          IF check.store[client_hash].window_start
                                 = rate_limit_store[client_hash].window_start
                          THEN @ + 1
                          ELSE 1]
                 ELSE allowed_log
           /\ rejected_log' =
                 IF rejected
                 THEN [rejected_log EXCEPT ![client_hash] = Min(@ + 1, MaxRejects)]
                 ELSE IF limited
                 THEN [rejected_log EXCEPT ![client_hash] = 0]
                 ELSE rejected_log
           /\ UNCHANGED now
           /\ UNCHANGED <<chatVars, fault, chunkVars, uploadVars, embedVars, sectionVars>>

\* Time passes between requests.
clock_advances ==
    /\ now < Horizon
    /\ now' = now + 1
    /\ UNCHANGED <<rate_limit_store, rl_last, allowed_log, rejected_log>>
    /\ UNCHANGED <<chatVars, fault, chunkVars, uploadVars, embedVars, sectionVars>>

RateInit ==
    /\ ChatIdle
    /\ ChunkIdle
    /\ UploadIdle
    /\ EmbedIdle
    /\ SectionIdle
    /\ RateIdle

RateNext ==
    \/ rate_limit_middleware
    \/ clock_advances

RateSpec == RateInit /\ [][RateNext]_vars

(***************************************************************************)
(* The upload loop of ingest_docs (src/scripts/ingest.py, lines 188-203)   *)
(* and the vector store it writes to.  Every run gives every point a new   *)
(* uuid4 id, so the store is modelled by how many points each run has      *)
(* persisted: the point of chunk k made by run r exists when               *)
(* collection[r] >= k.                                                     *)
(***************************************************************************)
batch_size == 100
MaxRuns == 3
PointCounts == {1, 100, 101, 250}

\* line 194: len(all_points[i:i + batch_size])
batch_len(i) == Min(batch_size, all_points - i)

\* line 199: (len(all_points) + batch_size - 1) // batch_size
batch_total == (all_points + batch_size - 1) \div batch_size

\* ingest_docs up to the upload loop: the same files give the same number
\* of points on every run.
ingest_docs_prepare ==
    /\ ingest_pc \in {"idle", "complete", "crashed"}
    /\ Len(collection) < MaxRuns
    /\ IF all_points = 0
       THEN all_points' \in PointCounts
       ELSE all_points' = all_points
    /\ batch_start' = 0
    /\ upsert_calls' = <<>>
    /\ ingest_report' = NoReport
    /\ collection' = Append(collection, 0)
    /\ ingest_pc' = "upload"
    /\ UNCHANGED <<chatVars, fault, chunkVars, embedVars, rateVars, sectionVars>>

\* One pass of the loop body: client.upsert returns, the line is printed.
upsert_batch ==
    /\ ingest_pc = "upload"
    /\ batch_start < all_points
    /\ upsert_calls' = Append(upsert_calls, batch_len(batch_start))
    /\ collection' = [collection EXCEPT ![Len(collection)] = @ + batch_len(batch_start)]
    /\ ingest_report' = [ingest_report EXCEPT !.uploaded = @ + 1]
    /\ batch_start' = batch_start + batch_size
    /\ UNCHANGED <<all_points, ingest_pc>>
    /\ UNCHANGED <<chatVars, fault, chunkVars, embedVars, rateVars, sectionVars>>

\* client.upsert raises.  Nothing catches it: the script ends with the
\* traceback.  Whether the store applied the batch before the call failed
\* is not known to the caller.
upsert_raises ==
    /\ ingest_pc = "upload"
    /\ batch_start < all_points
    /\ upsert_calls' = Append(upsert_calls, batch_len(batch_start))
    /\ \E applied \in BOOLEAN :
          collection' = IF applied
                        THEN [collection EXCEPT ![Len(collection)] = @ + batch_len(batch_start)]
                        ELSE collection
    /\ ingest_pc' = "crashed"
    /\ UNCHANGED <<all_points, batch_start, ingest_report>>
    /\ UNCHANGED <<chatVars, fault, chunkVars, embedVars, rateVars, sectionVars>>

\* The range is exhausted: "Ingestion complete!"
ingest_docs_complete ==
    /\ ingest_pc = "upload"
    /\ ~(batch_start < all_points)
    /\ ingest_report' = [ingest_report EXCEPT !.complete = TRUE]
    /\ ingest_pc' = "complete"
    /\ UNCHANGED <<all_points, batch_start, upsert_calls, collection>>
    /\ UNCHANGED <<chatVars, fault, chunkVars, embedVars, rateVars, sectionVars>>

UploadInit ==
    /\ ChatIdle
    /\ ChunkIdle
    /\ EmbedIdle
    /\ RateIdle
    /\ SectionIdle
    /\ UploadIdle

UploadNext ==
    \/ ingest_docs_prepare
    \/ upsert_batch
    \/ upsert_raises
    \/ ingest_docs_complete

UploadSpec == UploadInit /\ [][UploadNext]_vars

(***************************************************************************)
(* get_embedding_model (src/src/services/embeddings.py): a function under  *)
(* functools.lru_cache(maxsize=1), called by embed_text and embed_texts.   *)
(* The cache wrapper looks the key up, on a miss calls the function        *)
(* without holding any lock, then stores the result unless the key has     *)
(* been stored meanwhile, and returns the result it computed.  Instances   *)
(* are numbered in the order of their construction; 0 is no instance.      *)
(***************************************************************************)
\* model = get_embedding_model(): the cache lookup
cache_lookup(t) ==
    /\ caller_pc[t] = "idle"
    /\ IF model_cache # 0
       THEN /\ caller_model' = [caller_model EXCEPT ![t] = model_cache]
            /\ caller_pc' = [caller_pc EXCEPT ![t] = "returned"]
       ELSE /\ caller_pc' = [caller_pc EXCEPT ![t] = "miss"]
            /\ UNCHANGED caller_model
    /\ UNCHANGED <<model_cache, constructions>>
    /\ UNCHANGED <<chatVars, fault, chunkVars, uploadVars, rateVars, sectionVars>>

\* line 16: SentenceTransformer(settings.embedding_model)
load_model(t) ==
    /\ caller_pc[t] = "miss"
    /\ constructions' = constructions + 1
    /\ caller_model' = [caller_model EXCEPT ![t] = constructions + 1]
    /\ caller_pc' = [caller_pc EXCEPT ![t] = "loaded"]
    /\ UNCHANGED model_cache
    /\ UNCHANGED <<chatVars, fault, chunkVars, uploadVars, rateVars, sectionVars>>

\* The wrapper stores the result if the key is still missing and returns
\* the result of its own call either way.
cache_store(t) ==
    /\ caller_pc[t] = "loaded"
    /\ model_cache' = IF model_cache = 0 THEN caller_model[t] ELSE model_cache
    /\ caller_pc' = [caller_pc EXCEPT ![t] = "returned"]
    /\ UNCHANGED <<constructions, caller_model>>
    /\ UNCHANGED <<chatVars, fault, chunkVars, uploadVars, rateVars, sectionVars>>

\* embed_text / embed_texts returns; the thread may call again.
embed_text_returns(t) ==
    /\ caller_pc[t] = "returned"
    /\ caller_pc' = [caller_pc EXCEPT ![t] = "idle"]
    /\ UNCHANGED <<model_cache, constructions, caller_model>>
    /\ UNCHANGED <<chatVars, fault, chunkVars, uploadVars, rateVars, sectionVars>>

EmbedInit ==
    /\ ChatIdle
    /\ ChunkIdle
    /\ UploadIdle
    /\ RateIdle
    /\ SectionIdle
    /\ EmbedIdle

EmbedNext ==
    \/ \E t \in Threads : cache_lookup(t)
    \/ \E t \in Threads : load_model(t)
    \/ \E t \in Threads : cache_store(t)
    \/ \E t \in Threads : embed_text_returns(t)

EmbedSpec == EmbedInit /\ [][EmbedNext]_vars

(***************************************************************************)
(* ingest_docs for one markdown file (src/scripts/ingest.py, lines         *)
(* 155-186): the content goes through chunk_text with its default          *)
(* parameters, and every chunk becomes a point whose section_id is         *)
(* extract_section_id(chunk["text"], chapter_slug).                        *)
(***************************************************************************)
default_max_tokens == 512
default_overlap_tokens == 50
MaxDocLen == 6
DocAlphabet == {"#", "A", " ", "\n"}
Docs == SeqsUpTo(DocAlphabet, MaxDocLen)

\* md_file.stem
chapter_slug == <<"c", "h">>

\* The lines of t: what ^ and $ delimit under re.MULTILINE.
RECURSIVE LinesFrom(_, _, _, _)
LinesFrom(t, i, cur, acc) ==
    IF i > Len(t) THEN Append(acc, cur)
    ELSE IF t[i] = "\n"
         THEN LinesFrom(t, i + 1, <<>>, Append(acc, cur))
         ELSE LinesFrom(t, i + 1, Append(cur, t[i]), acc)

Lines(t) == LinesFrom(t, 1, <<>>, <<>>)

\* The number of "#" a line starts with.
RECURSIVE Hashes(_)
Hashes(line) ==
    IF line # <<>> /\ Head(line) = "#" THEN 1 + Hashes(Tail(line)) ELSE 0

\* ^##+ (.+)$ on one line: two or more "#", a space, one or more characters.
\* "#+" is followed by a space, so it takes every leading "#".
LineMatches(line) ==
    /\ Hashes(line) >= 2
    /\ Len(line) >= Hashes(line) + 2
    /\ line[Hashes(line) + 1] = " "

\* group(1)
Group1(line) == SubSeq(line, Hashes(line) + 2, Len(line))

\* re.search(r'^##+ (.+)$', text, re.MULTILINE): the first line that matches
heading_match(t) ==
    LET ls == Lines(t)
        hits == {i \in 1..Len(ls) : LineMatches(ls[i])}
    IN IF hits = {} THEN [found |-> FALSE, heading |-> <<>>]
       ELSE [found |-> TRUE,
             heading |-> Group1(ls[CHOOSE i \in hits : \A j \in hits : i <= j])]

\* str.lower()
Lower(s) == [i \in 1..Len(s) |-> IF s[i] = "A" THEN "a" ELSE s[i]]

\* [\w\s-]
KeptInSlug(c) == c \in {"A", "a", "_", "-"} \cup Whitespace

\* re.sub(r'[\s_]+', '-', s)
RECURSIVE Hyphenate(_, _)
Hyphenate(s, in_run) ==
    IF s = <<>> THEN <<>>
    ELSE IF Head(s) \in Whitespace \cup {"_"}
         THEN (IF in_run THEN <<>> ELSE <<"-">>) \o Hyphenate(Tail(s), TRUE)
         ELSE <<Head(s)>> \o Hyphenate(Tail(s), FALSE)

\* lines 110-111
heading_slug(heading) == Hyphenate(SelectSeq(Lower(heading), KeptInSlug), FALSE)

extract_section_id(chunk, slug) ==
    LET m == heading_match(chunk)
    IN IF m.found THEN slug \o <<"#">> \o heading_slug(m.heading) ELSE slug

\* lines 171-184: one point per chunk
prepare_points ==
    /\ pc = "done"
    /\ section_pc = "read"
    /\ points' = [i \in 1..Len(chunks) |->
                     [chapter_slug |-> chapter_slug,
                      section_id |-> extract_section_id(chunks[i].text, chapter_slug),
                      chunk_text |-> chunks[i].text,
                      chunk_index |-> i - 1,
                      start_char |-> chunks[i].start_char,
                      end_char |-> chunks[i].end_char]]
    /\ section_pc' = "prepared"
    /\ UNCHANGED doc
    /\ UNCHANGED <<chatVars, fault, chunkVars, uploadVars, embedVars, rateVars>>

\* A file has been read; chunk_text(parsed["content"]) is about to run.
SectionInit ==
    /\ ChatIdle
    /\ UploadIdle
    /\ EmbedIdle
    /\ RateIdle
    /\ doc \in Docs
    /\ points = <<>>
    /\ section_pc = "read"
    /\ text = doc
    /\ max_tokens = default_max_tokens
    /\ overlap_tokens = default_overlap_tokens
    /\ words = <<>>
    /\ chunks = <<>>
    /\ start_idx = 0
    /\ char_pos = 0
    /\ pc = "call"

SectionNext ==
    \/ ChunkCall
    \/ ChunkIter
    \/ ChunkReturn
    \/ prepare_points

SectionSpec == SectionInit /\ [][SectionNext]_vars

(***************************************************************************)
(* Properties of the chat handlers and of the classification               *)
(***************************************************************************)
Answered == response.status = 200

\* C1: on the plain chat endpoint, whenever the top score classifies as low,
\* the request is answered with the fixed fallback text, no sources (even
\* when retrieval returned hits), the fixed "may not be covered" disclaimer,
\* and the completion API is not called during the request.
C1_PlainLowIsCannedFallback ==
    (endpoint = "chat" /\ classified = "low") =>
        /\ Answered
        /\ response.answer = FallbackText
        /\ response.sources = <<>>
        /\ response.disclaimer = DisclaimerLow
        /\ response.confidence = "low"
        /\ llm_calls = 0

\* The spec's scenario: thresholds 0.4/0.7, hits with top score 0.2.
C1_Witness ==
    /\ endpoint = "chat"
    /\ settings = DefaultSettings
    /\ Len(results) > 0
    /\ results[1].score = 20
    /\ classified = "low"
    /\ Answered

\* C2: on the contextual endpoint, whenever retrieval classifies as low
\* (zero hits included), the completion API is called once, with the
\* selected text; the response returned has confidence medium, the
\* "based primarily on the selected text" disclaimer, the completion (not
\* the canned fallback) as answer and one source per retrieval result; and
\* no response of the contextual endpoint has confidence low.
C2_ContextLowIsUpgraded ==
    /\ (endpoint = "context" /\ classified = "low") =>
          /\ llm_calls = 1
          /\ llm_selected = request.selected_text
          /\ llm_selected \in SelectedTexts
          /\ Answered =>
                /\ response.confidence = "medium"
                /\ response.disclaimer = DisclaimerContextLow
                /\ response.answer \in LLMAnswers
                /\ response.answer # FallbackText
                /\ Len(response.sources) = Len(results)
                /\ \A i \in 1..Len(results) :
                      response.sources[i].score = results[i].score
    /\ (endpoint = "context" /\ Answered) => response.confidence # "low"

\* The spec's scenario: zero hits, classified low, answered by the LLM.
C2_Witness ==
    /\ endpoint = "context"
    /\ settings = DefaultSettings
    /\ results = <<>>
    /\ classified = "low"
    /\ Answered
    /\ response.sources = <<>>

ScoreDomain == -100..100

Rank(level) == CASE level = "low" -> 0 [] level = "medium" -> 1 [] level = "high" -> 2

\* The classification the spec states, for thresholds low <= high.
ThreeWay(score) ==
    IF score >= settings.confidence_high_threshold THEN "high"
    ELSE IF /\ settings.confidence_low_threshold <= score
            /\ score < settings.confidence_high_threshold THEN "medium"
    ELSE IF score < settings.confidence_low_threshold THEN "low"
    ELSE "undefined"

WellOrdered == settings.confidence_low_threshold <= settings.confidence_high_threshold

\* C3: get_confidence_level yields a level for every score, is
\* non-decreasing in the score (low < medium < high; stated step by step
\* over the hundredths of [-1,1], which gives it for every pair), and for thresholds
\* low <= high its boundaries are inclusive from below: score >= high is
\* high, low <= score < high is medium, score < low is low; with the
\* thresholds 0.4/0.7: 0.9 and 0.7 are high, 0.69 and 0.4 medium, 0.39 low.
\* What a handler classified is that level of its top score.
C3_ClassificationTotalMonotonic ==
    /\ \A s \in ScoreDomain : get_confidence_level(s) \in {"low", "medium", "high"}
    /\ \A s \in ScoreDomain \ {100} :
          Rank(get_confidence_level(s)) <= Rank(get_confidence_level(s + 1))
    /\ WellOrdered => \A s \in ScoreDomain : get_confidence_level(s) = ThreeWay(s)
    /\ settings = DefaultSettings =>
          /\ get_confidence_level(90) = "high"
          /\ get_confidence_level(70) = "high"
          /\ get_confidence_level(69) = "medium"
          /\ get_confidence_level(40) = "medium"
          /\ get_confidence_level(39) = "low"
    /\ (classified # None /\ Len(results) > 0 /\ WellOrdered) =>
          classified = ThreeWay(results[1].score)

\* A handler classified a top score that sits on the low boundary.
C3_Witness ==
    /\ settings = DefaultSettings
    /\ endpoint = "chat"
    /\ Len(results) > 0
    /\ results[1].score = 40
    /\ classified = "medium"

\* C4: for every configured threshold pair, a handler that got an empty
\* retrieval result classified it as low.
C4_EmptyRetrievalIsLow ==
    (endpoint \in {"chat", "context"} /\ classified # None /\ results = <<>>) =>
        classified = "low"

\* C5: on both endpoints a response whose retrieval classified as high
\* carries no disclaimer, one whose retrieval classified as medium carries
\* the endpoint's limited-context disclaimer, and a response has no
\* disclaimer exactly when its confidence is high.
C5_DisclaimerFollowsConfidence ==
    Answered =>
        /\ classified = "high" => response.disclaimer = None
        /\ (classified = "medium" /\ endpoint = "chat") =>
              response.disclaimer = DisclaimerMedium
        /\ (classified = "medium" /\ endpoint = "context") =>
              response.disclaimer = DisclaimerContextMedium
        /\ response.disclaimer = None <=> response.confidence = "high"

C5_Witness ==
    /\ endpoint = "chat"
    /\ classified = "medium"
    /\ Answered
    /\ response.confidence = "medium"
    /\ response.disclaimer = DisclaimerMedium

(***************************************************************************)
(* Properties of the chunker, under ChunkSpec                              *)
(***************************************************************************)
ValidParams == max_tokens >= 1 /\ 0 <= overlap_tokens /\ overlap_tokens < max_tokens

\* C6: for every text and every max_tokens >= 1 and
\* 0 <= overlap_tokens < max_tokens, a call of chunk_text returns: the
\* window loop reaches the end of the word sequence.
C6_ChunkingTerminates == (pc = "call" /\ ValidParams) ~> (pc = "done")

\* A call with an overlap that went through the loop several times.
C6_Witness ==
    /\ pc = "done"
    /\ ValidParams
    /\ overlap_tokens > 0
    /\ Len(chunks) >= 2

\* C7: for valid parameters the chunks are in non-decreasing start_char
\* order.
C7_StartCharNonDecreasing ==
    ValidParams =>
        \A i \in 1..(Len(chunks) - 1) : chunks[i].start_char <= chunks[i + 1].start_char

\* C8: for a non-empty text and valid parameters the last chunk returned
\* ends at len(text).
C8_LastChunkEndsAtTextEnd ==
    (pc = "done" /\ ValidParams /\ text # <<>> /\ chunks # <<>>) =>
        chunks[Len(chunks)].end_char = Len(text)

\* C9: for valid parameters every chunk has start_char < end_char, and
\* end_char - start_char is the length of the chunk's text, at least 1.
C9_ChunkSpanIsTextLength ==
    ValidParams =>
        \A i \in 1..Len(chunks) :
            /\ chunks[i].start_char < chunks[i].end_char
            /\ chunks[i].end_char - chunks[i].start_char = Len(chunks[i].text)
            /\ Len(chunks[i].text) >= 1

\* A returned call with several chunks, of one word and of more.
C9_Witness ==
    /\ pc = "done"
    /\ ValidParams
    /\ Len(chunks) >= 2
    /\ \E i \in 1..Len(chunks) : Len(chunks[i].text) = 1
    /\ \E i \in 1..Len(chunks) : Len(chunks[i].text) > 1

\* C10: a call with overlap_tokens >= max_tokens is rejected: it takes no
\* pass of the loop that leaves the window where it was or moves it back.
C10_InvalidOverlapNeverStalls ==
    [][(overlap_tokens >= max_tokens /\ pc = "loop" /\ pc' = "loop")
          => start_idx' > start_idx]_vars

(***************************************************************************)
(* Properties of the error responses and of the configuration, under Spec  *)
(***************************************************************************)
ErrorShape == {"error", "code", "details"}

ValidationCodes == {"INVALID_REQUEST", "MESSAGE_TOO_LONG", "SELECTED_TEXT_TOO_LONG"}

\* C15: on both chat endpoints a request in which a step raised (embedding
\* the query, the vector search, the completion call, building the sources)
\* is answered with HTTP 500, code INTERNAL_ERROR, the endpoint's fixed
\* error text and the exception's message under details.message only; no
\* field of a ChatResponse is returned.  A 500 comes from a raised step only.
C15_ExceptionsBecomeInternalError ==
    /\ (endpoint \in {"chat", "context"} /\ fault # "none") =>
          /\ response.status = 500
          /\ response.code = "INTERNAL_ERROR"
          /\ response.detail_message = ExceptionMessage(fault)
          /\ response.error = (IF endpoint = "chat" THEN ErrorChat ELSE ErrorContext)
          /\ response.answer = None
          /\ response.confidence = None
          /\ response.sources = <<>>
          /\ response.disclaimer = None
          /\ response.body \cap ChatResponseKeys = {}
    /\ response.status = 500 => fault # "none"

\* The contextual handler had called the LLM, with hits, when building the
\* sources raised.
C15_Witness ==
    /\ endpoint = "context"
    /\ fault = "assemble"
    /\ llm_calls = 1
    /\ Len(results) > 0
    /\ response.status = 500

\* C16: every error body of the chat routes (internal error, request
\* validation failure) has the top-level keys error, code and details, and a
\* validation error carries a validation code, not that of an internal error.
C16_ErrorPayloadsShareShape ==
    response.status \in {422, 500} =>
        /\ response.body = ErrorShape
        /\ response.status = 422 => response.code \in ValidationCodes

\* C17: no chat request is classified under thresholds with
\* confidence_low_threshold >= confidence_high_threshold.
C17_NoClassificationUnderMalformedThresholds ==
    classified # None =>
        settings.confidence_low_threshold < settings.confidence_high_threshold

\* ------------------------------------------------------------------
\* C18: for valid parameters chunk i (counted from 0) is the window of
\* words that starts at word index i * (max_tokens - overlap_tokens) and
\* holds at most max_tokens words, so neighbouring chunks share exactly
\* overlap_tokens words; at return every word lies in some chunk, a text
\* without words gives no chunk and a text of 1..max_tokens words gives
\* exactly one chunk holding all of them.
WindowStart(i) == (i - 1) * (max_tokens - overlap_tokens)
WindowEnd(i) == Min(WindowStart(i) + max_tokens, Len(words))

C18_SlidingWindows ==
    (ValidParams /\ pc # "call") =>
        /\ \A i \in 1..Len(chunks) :
              /\ WindowStart(i) < Len(words)
              /\ WindowEnd(i) - WindowStart(i) <= max_tokens
              /\ chunks[i].text = Join(SubSeq(words, WindowStart(i) + 1, WindowEnd(i)))
        /\ \A i \in 1..(Len(chunks) - 1) :
              /\ WindowEnd(i) - WindowStart(i + 1) = overlap_tokens
              /\ SubSeq(words, WindowStart(i + 1) + 1, WindowEnd(i))
                     = SubSeq(words, WindowEnd(i) - overlap_tokens + 1, WindowEnd(i))
        /\ pc = "done" =>
              /\ \A k \in 1..Len(words) :
                    \E i \in 1..Len(chunks) : WindowStart(i) < k /\ k <= WindowEnd(i)
              /\ Len(words) = 0 => chunks = <<>>
              /\ text = <<>> => chunks = <<>>
              /\ (1 <= Len(words) /\ Len(words) <= max_tokens) =>
                    (Len(chunks) = 1 /\ chunks[1].text = Join(words))

C18_Witness ==
    /\ pc = "done"
    /\ ValidParams
    /\ overlap_tokens = 1
    /\ max_tokens = 2
    /\ Len(words) = 3
    /\ Len(chunks) = 2
    /\ chunks[2].text = Join(SubSeq(words, 2, 3))

(***************************************************************************)
(* Properties of the rate limiter                                          *)
(***************************************************************************)
\* A step that leaves the clock alone is one request through the middleware.
Live(client_data) ==
    client_data # Absent /\ now - client_data.window_start < WindowTicks

RemainingTicks(client_data) == client_data.window_start + WindowTicks - now

\* ------------------------------------------------------------------
\* C14: per client and per window that starts at the client's
\* window_start and lasts rate_limit_window_seconds, at most
\* rate_limit_requests requests to /chat paths are let through; once the
\* window holds that many, every further request in it is answered 429
\* with a retry-after (body and header) equal to the whole seconds left in
\* the window; the first request at or after expiry (or of an unknown
\* client) is let through and opens a new window with count 1.
C14_FixedWindowLimit ==
    /\ [](\A c \in Clients :
             /\ allowed_log[c] <= rate_limit_requests
             /\ rate_limit_store[c] # Absent =>
                    /\ rate_limit_store[c].window_start <= now
                    /\ rate_limit_store[c].count = allowed_log[c])
    /\ [][now' = now =>
            LET c == rl_last'.client
                old == rate_limit_store[c]
                full == Live(old) /\ allowed_log[c] >= rate_limit_requests
            IN StartsWith(rl_last'.path, ChatPath) =>
                  /\ full =>
                        /\ rl_last'.status = 429
                        /\ rl_last'.retry_after >= 0
                        /\ rl_last'.retry_after * TicksPerSecond <= RemainingTicks(old)
                        /\ RemainingTicks(old) < (rl_last'.retry_after + 1) * TicksPerSecond
                        /\ rl_last'.header = rl_last'.retry_after
                  /\ ~full => (rl_last'.forwarded /\ rl_last'.status # 429)
                  /\ ~Live(old) =>
                        /\ rate_limit_store'[c] = [count |-> 1, window_start |-> now]
                        /\ allowed_log'[c] = 1
                  /\ (Live(old) /\ ~full) =>
                        /\ rate_limit_store'[c].window_start = old.window_start
                        /\ allowed_log'[c] = allowed_log[c] + 1
       ]_vars

\* A rejection whose retry-after cut off a fraction of a second, in a
\* window that holds the full number of requests.
C14_Witness ==
    /\ rl_last.status = 429
    /\ allowed_log[rl_last.client] = rate_limit_requests
    /\ rl_last.retry_after >= 1
    /\ rl_last.retry_after * TicksPerSecond
           < RemainingTicks(rate_limit_store[rl_last.client])

\* ------------------------------------------------------------------
\* C20: a rejected request writes nothing to rate_limit_store and is not
\* forwarded to the handlers; no request touches another client's entry;
\* and once rate_limit_window_seconds have passed since a client's
\* window_start its next /chat request is let through, however many
\* rejections it collected before.
C20_RejectionHasNoEffect ==
    [][now' = now =>
          LET c == rl_last'.client
              old == rate_limit_store[c]
          IN /\ rl_last'.status = 429 =>
                    /\ rate_limit_store' = rate_limit_store
                    /\ ~rl_last'.forwarded
                    /\ UNCHANGED <<chatVars, fault>>
             /\ \A d \in Clients \ {c} : rate_limit_store'[d] = rate_limit_store[d]
             /\ (/\ StartsWith(rl_last'.path, ChatPath)
                 /\ old # Absent
                 /\ now - old.window_start >= WindowTicks)
                    => (rl_last'.forwarded /\ rl_last'.status # 429)
    ]_vars

\* A client let through again after two or more rejections, while the
\* other client has an entry of its own.
C20_Witness ==
    /\ rl_last.forwarded
    /\ StartsWith(rl_last.path, ChatPath)
    /\ rl_last.rejects_before >= 2
    /\ \E d \in Clients \ {rl_last.client} : rate_limit_store[d] # Absent

(***************************************************************************)
(* Properties of the upload loop                                           *)
(***************************************************************************)
\* Points in the store that carry chunk_index k - 1 of the ingested files.
PointsOfChunk(k) == {r \in 1..Len(collection) : collection[r] >= k}

RECURSIVE Sum(_)
Sum(sizes) == IF sizes = <<>> THEN 0 ELSE Head(sizes) + Sum(Tail(sizes))

\* ------------------------------------------------------------------
\* C11: N points go out in ceil(N/100) batches of at most 100, in order;
\* when the call for batch k fails the run reports k and how many points
\* were persisted (those of the batches before k), failed (those of batch
\* k) and were not attempted (the rest), and the earlier batches stay.
C11_BatchFailureIsReported ==
    /\ \A j \in 1..Len(upsert_calls) :
          /\ upsert_calls[j] <= batch_size
          /\ j < Len(upsert_calls) => upsert_calls[j] = batch_size
    /\ ingest_pc = "complete" =>
          /\ Len(upsert_calls) = batch_total
          /\ Sum(upsert_calls) = all_points
    /\ ingest_pc = "crashed" =>
          LET k == Len(upsert_calls) IN
          /\ collection[Len(collection)] >= (k - 1) * batch_size
          /\ ingest_report.failed_batch = k
          /\ ingest_report.persisted = (k - 1) * batch_size
          /\ ingest_report.failed = upsert_calls[k]
          /\ ingest_report.not_attempted = all_points - Sum(upsert_calls)

\* ------------------------------------------------------------------
\* C12: after any number of runs over the same files, a finished run
\* leaves exactly one point per chunk in the store.
C12_OnePointPerChunk ==
    ingest_pc = "complete" =>
        \A k \in 1..all_points : Cardinality(PointsOfChunk(k)) = 1

(***************************************************************************)
(* Properties of the embedding model cache                                 *)
(***************************************************************************)
\* ------------------------------------------------------------------
\* C13: whatever the interleaving of the first callers, the model is
\* constructed at most once, and every caller gets that one instance.
C13_ModelConstructedOnce ==
    /\ constructions <= 1
    /\ \A t \in Threads, u \in Threads :
          (caller_model[t] # 0 /\ caller_model[u] # 0) => caller_model[t] = caller_model[u]

(***************************************************************************)
(* Properties of the section ids                                           *)
(***************************************************************************)
\* A Markdown sub-heading line: "##" or deeper, a space, and a heading text
\* that starts and ends with a letter.
SubHeading(line) ==
    /\ LineMatches(line)
    /\ Head(Group1(line)) = "A"
    /\ Group1(line)[Len(Group1(line))] = "A"

\* Every line of the file that the pattern matches is such a heading.
PlainHeadings(content) ==
    \A i \in 1..Len(Lines(content)) :
        LineMatches(Lines(content)[i]) => SubHeading(Lines(content)[i])

\* The section id the first sub-heading line of a source span stands for.
SectionOf(span) ==
    LET ls == Lines(span)
        hits == {i \in 1..Len(ls) : SubHeading(ls[i])}
    IN IF hits = {} THEN chapter_slug
       ELSE chapter_slug \o <<"#">>
                \o heading_slug(Group1(ls[CHOOSE i \in hits : \A j \in hits : i <= j]))

\* ------------------------------------------------------------------
\* C19: a chunk whose source span holds a sub-heading line is stored with
\* section_id "{chapter_slug}#{slug of the first such heading's text}", a
\* chunk without one with section_id chapter_slug.  The files of the model
\* are shorter than one window, so the span of the only chunk is the file.
\* Stated for the files whose "#" lines are all plain sub-headings, and
\* for the files without any "#".
HasSubHeading(content) ==
    \E i \in 1..Len(Lines(content)) : SubHeading(Lines(content)[i])

NoHash(content) == \A k \in 1..Len(content) : content[k] # "#"

C19_SectionIdFromFirstHeading ==
    (section_pc = "prepared" /\ Len(points) = 1) =>
        /\ (PlainHeadings(doc) /\ HasSubHeading(doc)) =>
               points[1].section_id = SectionOf(doc)
        /\ NoHash(doc) => points[1].section_id = chapter_slug

====
